---- MODULE Spec2Model ----
(***************************************************************************)
(* Model of register_model.py: the model registration step of the          *)
(* fine-tuning pipeline.  Python strings are sequences of one-character    *)
(* strings, so that str.lower, str.split, str.join, str.replace, re.match  *)
(* and re.sub are computed character by character as the code computes     *)
(* them.  A directory tree is a function from relative paths (sequences of *)
(* names) to entries; the root of a tree is the empty path.                *)
(***************************************************************************)
EXTENDS Integers, Sequences, FiniteSets, TLC

VARIABLES
    argv,       \* the raw command line: --convert_to_safetensors, --copy_model_to_output, --model_name
    args,       \* the Namespace parse_args returns (model_name is updated by __main__)
    meta,       \* the content of the file at --finetune_args_path
    modelDir,   \* the tree under --model_path
    outDir,     \* the tree under --registration_details_folder
    modelDir0,  \* modelDir when the process started
    outDir0,    \* outDir when the process started
    pc,         \* position of the process
    bin_files,  \* convert_lora_weights_to_safetensors: the list of matched files
    idx,        \* convert_lora_weights_to_safetensors: position in bin_files
    bin_file_sd,\* convert_lora_weights_to_safetensors: the state dict torch.load returned
    properties, \* register_model: what get_properties returned
    registry,   \* the calls of Model.register that returned, in order
    steps,      \* the steps of __main__ that completed, in order
    raisedIn,   \* the function whose exception ended the process ("" while none)
    snap        \* the destination tree after the first of two copies

vars == <<argv, args, meta, modelDir, outDir, modelDir0, outDir0, pc, bin_files,
          idx, bin_file_sd, properties, registry, steps, raisedIn, snap>>

----------------------------------------------------------------------------
\* Bounds of the model

\* file contents are numbered 1..MaxData
MaxData == 2

----------------------------------------------------------------------------
\* Strings

SLASH == "/"
HYPHEN == "-"
NEWLINE == "\n"

LowerLetters ==
    <<"a", "b", "c", "d", "e", "f", "g", "h", "i", "j", "k", "l", "m",
      "n", "o", "p", "q", "r", "s", "t", "u", "v", "w", "x", "y", "z">>

UpperLetters ==
    <<"A", "B", "C", "D", "E", "F", "G", "H", "I", "J", "K", "L", "M",
      "N", "O", "P", "Q", "R", "S", "T", "U", "V", "W", "X", "Y", "Z">>

Digits == {"0", "1", "2", "3", "4", "5", "6", "7", "8", "9"}

HexDigits == Digits \cup {"a", "b", "c", "d", "e", "f"}

Range(s) == {s[i] : i \in 1..Len(s)}

\* str.lower on one character
lowerChar(c) ==
    IF c \in Range(UpperLetters)
    THEN LowerLetters[CHOOSE i \in 1..Len(UpperLetters) : UpperLetters[i] = c]
    ELSE c

\* str.lower
lower(s) == [i \in 1..Len(s) |-> lowerChar(s[i])]

\* str.split(sep) for a one-character separator
RECURSIVE split(_, _)
split(s, sep) ==
    IF \A i \in 1..Len(s) : s[i] # sep
    THEN <<s>>
    ELSE LET i == CHOOSE k \in 1..Len(s) : s[k] = sep /\ \A j \in 1..(k - 1) : s[j] # sep
         IN  <<SubSeq(s, 1, i - 1)>> \o split(SubSeq(s, i + 1, Len(s)), sep)

\* sep.join(parts)
RECURSIVE join(_, _)
join(parts, sep) ==
    IF Len(parts) = 0 THEN <<>>
    ELSE IF Len(parts) = 1 THEN parts[1]
    ELSE parts[1] \o <<sep>> \o join(Tail(parts), sep)

\* str.replace(old, new): every non-overlapping occurrence, left to right
RECURSIVE replace(_, _, _)
replace(s, old, new) ==
    IF Len(s) < Len(old) THEN s
    ELSE IF SubSeq(s, 1, Len(old)) = old
         THEN new \o replace(SubSeq(s, Len(old) + 1, Len(s)), old, new)
         ELSE <<Head(s)>> \o replace(Tail(s), old, new)

----------------------------------------------------------------------------
\* Module constants

\* the character class [a-zA-Z0-9-]
NameChars == Range(LowerLetters) \cup Range(UpperLetters) \cup Digits \cup {HYPHEN}

\* re.match(VALID_MODEL_NAME_PATTERN, s): one or more characters of the class,
\* then "$", which Python matches at the end of the string and also just
\* before a newline that ends the string
VALID_MODEL_NAME_PATTERN(s) ==
    \/ /\ Len(s) >= 1
       /\ \A i \in 1..Len(s) : s[i] \in NameChars
    \/ /\ Len(s) >= 2
       /\ s[Len(s)] = NEWLINE
       /\ \A i \in 1..(Len(s) - 1) : s[i] \in NameChars

\* re.sub(NEGATIVE_MODEL_NAME_PATTERN, "-", s)
NEGATIVE_MODEL_NAME_PATTERN(s) ==
    [i \in 1..Len(s) |-> IF s[i] \in NameChars THEN s[i] ELSE HYPHEN]

REGISTRATION_DETAILS_JSON_FILE ==
    <<"m", "o", "d", "e", "l", "_", "r", "e", "g", "i", "s", "t", "r", "a", "t", "i",
      "o", "n", "_", "d", "e", "t", "a", "i", "l", "s", ".", "j", "s", "o", "n">>

DEFAULT_MODEL_NAME ==
    <<"d", "e", "f", "a", "u", "l", "t", "_", "m", "o", "d", "e", "l", "_", "n", "a", "m", "e">>

FT == <<"-", "f", "t", "-">>
BIN == <<".", "b", "i", "n">>
SAFETENSORS == <<".", "s", "a", "f", "e", "t", "e", "n", "s", "o", "r", "s">>
CUSTOM == "CUSTOM"

----------------------------------------------------------------------------
\* Command line

\* an option that was not given on the command line
Omitted == [given |-> FALSE, v |-> <<>>]
Given(s) == [given |-> TRUE, v |-> s]

S_true == <<"t", "r", "u", "e">>
S_false == <<"f", "a", "l", "s", "e">>
S_1 == <<"1">>
S_0 == <<"0">>

\* str2bool without the arg.lower() of its first line
str2bool_caseSensitive(arg) ==
    IF arg \in {S_true, S_1} THEN [ok |-> TRUE, val |-> TRUE]
    ELSE IF arg \in {S_false, S_0} THEN [ok |-> TRUE, val |-> FALSE]
    ELSE [ok |-> FALSE, val |-> FALSE]

\* str2bool: [ok |-> FALSE] stands for the ValueError
str2bool(arg) ==
    LET a == lower(arg)
    IN  IF a \in {S_true, S_1} THEN [ok |-> TRUE, val |-> TRUE]
        ELSE IF a \in {S_false, S_0} THEN [ok |-> TRUE, val |-> FALSE]
        ELSE [ok |-> FALSE, val |-> FALSE]

\* argparse on a type=str2bool, default="false" option: the string default
\* goes through the type function as a given value does
boolOption(opt) == IF opt.given THEN str2bool(opt.v) ELSE str2bool(S_false)

NoArgs ==
    [convert_to_safetensors |-> FALSE, copy_model_to_output |-> FALSE,
     model_name |-> Omitted, model_type |-> CUSTOM]

----------------------------------------------------------------------------
\* The fine-tune metadata file

\* top: "nofile" (open or json.load raises), "list" (the document is not an
\* object) or "dict"; asset: what .get("model_asset_id") returns, kind "none"
\* (key absent), "num" (a value that is no string) or "str"
NoFile == [top |-> "nofile", asset |-> [kind |-> "none", s |-> <<>>]]
ListDoc == [top |-> "list", asset |-> [kind |-> "none", s |-> <<>>]]
DictMissing == [top |-> "dict", asset |-> [kind |-> "none", s |-> <<>>]]
DictNumber == [top |-> "dict", asset |-> [kind |-> "num", s |-> <<>>]]
DictString(s) == [top |-> "dict", asset |-> [kind |-> "str", s |-> s]]

\* finetune_args_dict.get("model_asset_id").split("/") raises unless the
\* document is an object whose value under the key is a string
canSplit(m) == m.top = "dict" /\ m.asset.kind = "str"

UUIDs ==
    { <<"1", "b", "9", "d", "6", "b", "c", "d", "-", "b", "b", "f", "d", "-", "4", "b", "2", "d", "-",
        "9", "b", "5", "d", "-", "a", "b", "8", "d", "f", "b", "b", "d", "4", "b", "e", "d">>,
      <<"9", "c", "8", "5", "8", "9", "0", "1", "-", "8", "a", "5", "7", "-", "4", "7", "9", "1", "-",
        "8", "1", "f", "e", "-", "4", "c", "4", "5", "5", "b", "0", "9", "9", "b", "c", "9">> }

\* base_model_name with index -2 in place of -3
base_model_name_secondLast(m) ==
    IF ~canSplit(m) THEN DEFAULT_MODEL_NAME
    ELSE LET parts == split(m.asset.s, SLASH)
         IN  IF Len(parts) < 2 THEN DEFAULT_MODEL_NAME ELSE parts[Len(parts) - 1]

\* the try/except of get_model_name: split("/")[-3], DEFAULT_MODEL_NAME on any exception
base_model_name(m) ==
    IF ~canSplit(m) THEN DEFAULT_MODEL_NAME
    ELSE LET parts == split(m.asset.s, SLASH)
         IN  IF Len(parts) < 3 THEN DEFAULT_MODEL_NAME ELSE parts[Len(parts) - 2]

\* get_model_name with uuid the value of str(uuid.uuid4()); [ok |-> FALSE]
\* stands for the exception of open/json.load, which are outside the try
get_model_name(m, uuid) ==
    IF m.top = "nofile" THEN [ok |-> FALSE, val |-> <<>>]
    ELSE [ok |-> TRUE, val |-> base_model_name(m) \o FT \o uuid]

NoProperties == [baseModelId |-> <<>>, baseModelWeightsVersion |-> "unset"]

\* get_properties with the slice [:-1] in place of [:-2]
get_properties_dropOne(m) ==
    IF ~canSplit(m) THEN [ok |-> FALSE, val |-> NoProperties]
    ELSE LET parts == split(m.asset.s, SLASH)
         IN  [ok |-> TRUE,
              val |-> [baseModelId |-> join(SubSeq(parts, 1, Len(parts) - 1), SLASH),
                       baseModelWeightsVersion |-> "1.0"]]

\* get_properties; [ok |-> FALSE] stands for the exception of open, json.load,
\* a .get on a document that is no object, or .split on a value that is no string
get_properties(m) ==
    IF ~canSplit(m) THEN [ok |-> FALSE, val |-> NoProperties]
    ELSE LET parts == split(m.asset.s, SLASH)
             kept == IF Len(parts) <= 2 THEN <<>> ELSE SubSeq(parts, 1, Len(parts) - 2)
         IN  [ok |-> TRUE,
              val |-> [baseModelId |-> join(kept, SLASH), baseModelWeightsVersion |-> "1.0"]]

----------------------------------------------------------------------------
\* Directory trees

NoInfo ==
    [id |-> <<>>, name |-> <<>>, version |-> 0, type |-> "", properties |-> NoProperties,
     tags |-> <<>>, description |-> <<>>]

DirEntry == [fmt |-> "dir", data |-> 0, info |-> NoInfo]
\* fmt "bin": a torch state dict; "st": a safetensors file; "raw": any other file
File(fmt, d) == [fmt |-> fmt, data |-> d, info |-> NoInfo]
\* a file opened for writing whose write did not finish
Partial == [fmt |-> "partial", data |-> 0, info |-> NoInfo]
JsonFile(info) == [fmt |-> "json", data |-> 0, info |-> info]

EmptyTree == [p \in {} |-> DirEntry]

isdir(t, p) == p = <<>> \/ (p \in DOMAIN t /\ t[p].fmt = "dir")
isfile(t, p) == p \in DOMAIN t /\ t[p].fmt # "dir"
Files(t) == {p \in DOMAIN t : t[p].fmt # "dir"}
Parent(p) == SubSeq(p, 1, Len(p) - 1)
Put(t, p, e) == (p :> e) @@ t
Remove(t, p) == [q \in DOMAIN t \ {p} |-> t[q]]
Children(t, d) == {p \in DOMAIN t : Len(p) = Len(d) + 1 /\ SubSeq(p, 1, Len(d)) = d}

\* the path string of a file below the root, and back
PathStr(p) == join(p, SLASH)
StrPath(s) == split(s, SLASH)

----------------------------------------------------------------------------
\* convert_lora_weights_to_safetensors

\* re.search(".bin$", path): any character but a newline, then "bin" at the end
matchesBin(s) ==
    /\ Len(s) >= 4
    /\ SubSeq(s, Len(s) - 2, Len(s)) = Tail(BIN)
    /\ s[Len(s) - 3] # NEWLINE

\* find_files_with_inc_excl_pattern(model_path, include_pat=".bin$")
find_files_with_inc_excl_pattern(t) == {p \in Files(t) : matchesBin(PathStr(p))}

\* bin_file.replace(".bin", ".safetensors")
safe_tensor_file(bin_file) == StrPath(replace(PathStr(bin_file), BIN, SAFETENSORS))

\* the orders in which a list may hold the elements of S
Orders(S) ==
    {o \in [1..Cardinality(S) -> S] : \A i, j \in 1..Cardinality(S) : o[i] = o[j] => i = j}

\* a file can be created or rewritten at p
writable(t, p) == isdir(t, Parent(p)) /\ ~isdir(t, p)

----------------------------------------------------------------------------
\* copy_model_to_output: shutil.copytree(src, dst, dirs_exist_ok=True)

NoFailure == [p \in {} |-> "open"]

\* a copy2 that leaves a file the destination already holds as it is
copy2_keepExisting(src, dst, p, fail) ==
    IF p \in DOMAIN dst THEN [fs |-> dst, err |-> FALSE]
    ELSE [fs |-> Put(dst, p, src[p]), err |-> FALSE]

\* shutil.copy2 of the file at path p of src to path p of dst. fail names the
\* files whose copy meets an OSError of the environment: "open" before the
\* destination is opened, "write" after it was truncated
copy2(src, dst, p, fail) ==
    LET target == IF isdir(dst, p) THEN p \o <<p[Len(p)]>> ELSE p
    IN  IF isdir(dst, target) THEN [fs |-> dst, err |-> TRUE]
        ELSE IF p \in DOMAIN fail
             THEN [fs |-> IF fail[p] = "write" THEN Put(dst, target, Partial) ELSE dst,
                   err |-> TRUE]
             ELSE [fs |-> Put(dst, target, src[p]), err |-> FALSE]

RECURSIVE copytree(_, _, _, _)
RECURSIVE copyEntries(_, _, _, _, _)

\* the loop of _copytree over the entries of a directory; an error of one
\* entry is collected and the loop goes on
copyEntries(src, dst, entries, fail, err) ==
    IF entries = {} THEN [fs |-> dst, err |-> err]
    ELSE LET e == CHOOSE x \in entries : TRUE
             r == IF src[e].fmt = "dir" THEN copytree(src, dst, e, fail)
                  ELSE copy2(src, dst, e, fail)
         IN  copyEntries(src, r.fs, entries \ {e}, fail, err \/ r.err)

\* _copytree of directory d of src onto path d of dst: os.makedirs(dst,
\* exist_ok=True) raises when the path holds a file
copytree(src, dst, d, fail) ==
    IF isfile(dst, d) THEN [fs |-> dst, err |-> TRUE]
    ELSE copyEntries(src, IF d = <<>> THEN dst ELSE Put(dst, d, DirEntry),
                     Children(src, d), fail, FALSE)

copy_model_to_output(src, dst, fail) == copytree(src, dst, <<>>, fail)

----------------------------------------------------------------------------
\* The inputs the model draws from

S_TRUE == <<"T", "R", "U", "E">>
S_False == <<"F", "a", "l", "s", "e">>
S_yes == <<"y", "e", "s">>

ConvertValues == {Omitted, Given(S_TRUE), Given(S_1), Given(S_false), Given(S_yes)}
CopyValues == {Omitted, Given(S_true), Given(S_0), Given(S_False), Given(<<>>)}

N_my_model == <<"m", "y", "_", "m", "o", "d", "e", "l">>
N_ab_1 == <<"a", "b", "-", "1">>
N_a_newline == <<"a", "\n">>

NameValues == {Omitted, Given(<<>>), Given(N_my_model), Given(N_ab_1), Given(N_a_newline)}

A_short == <<"a", "/", "b">>
A_weights ==
    <<"a", "/", "b", "/", "b", "a", "s", "e", "-", "m", "o", "d", "e", "l", "/", "v", "1", "/",
      "w", "e", "i", "g", "h", "t", "s">>
A_registry ==
    <<"r", "e", "g", "i", "s", "t", "r", "y", "/", "m", "o", "d", "e", "l", "s", "/", "f", "o", "o",
      "/", "v", "e", "r", "s", "i", "o", "n", "s", "/", "3">>

MetaValues ==
    {NoFile, ListDoc, DictMissing, DictNumber,
     DictString(A_short), DictString(A_weights), DictString(A_registry)}

F_a_bin == <<"a", ".", "b", "i", "n">>
F_b_bin == <<"b", ".", "b", "i", "n">>
F_c_safetensors == <<"c", ".", "s", "a", "f", "e", "t", "e", "n", "s", "o", "r", "s">>
F_a_bin_bin == <<"a", ".", "b", "i", "n", ".", "b", "i", "n">>
F_a_safetensors_bin ==
    <<"a", ".", "s", "a", "f", "e", "t", "e", "n", "s", "o", "r", "s", ".", "b", "i", "n">>
F_old_txt == <<"o", "l", "d", ".", "t", "x", "t">>
F_d == <<"d">>

ModelDirValues ==
    { (<<F_a_bin>> :> File("bin", 1)) @@ (<<F_b_bin>> :> File("bin", 2))
          @@ (<<F_c_safetensors>> :> File("st", 1)),
      (<<F_a_bin_bin>> :> File("bin", 1)) @@ (<<F_a_safetensors_bin>> :> File("bin", 2)),
      (<<REGISTRATION_DETAILS_JSON_FILE>> :> File("raw", 1)) @@ (<<F_a_bin>> :> File("bin", 2)),
      (<<F_d>> :> DirEntry) @@ (<<F_d, F_a_bin>> :> File("bin", 1)),
      (<<F_c_safetensors>> :> File("st", 1)) }

OutDirValues == { EmptyTree, (<<F_old_txt>> :> File("raw", 1)) }

----------------------------------------------------------------------------
\* The process

Init ==
    /\ argv \in [convert_to_safetensors : ConvertValues, copy_model_to_output : CopyValues,
                 model_name : NameValues]
    /\ args = NoArgs
    /\ meta \in MetaValues
    /\ modelDir \in ModelDirValues
    /\ outDir \in OutDirValues
    /\ modelDir0 = modelDir
    /\ outDir0 = outDir
    /\ pc = "parse_args"
    /\ bin_files = <<>>
    /\ idx = 0
    /\ bin_file_sd = 0
    /\ properties = NoProperties
    /\ registry = <<>>
    /\ steps = <<>>
    /\ raisedIn = ""
    /\ snap = EmptyTree

\* an exception nobody catches ends the process
Raise(f) == pc' = "failed" /\ raisedIn' = f

\* parse_args: argparse turns the ValueError of str2bool into an error exit
parse_args ==
    /\ pc = "parse_args"
    /\ LET c == boolOption(argv.convert_to_safetensors)
           k == boolOption(argv.copy_model_to_output)
       IN  IF c.ok /\ k.ok
           THEN /\ args' = [convert_to_safetensors |-> c.val, copy_model_to_output |-> k.val,
                            model_name |-> argv.model_name, model_type |-> CUSTOM]
                /\ pc' = "convert"
                /\ UNCHANGED raisedIn
           ELSE /\ Raise("parse_args")
                /\ UNCHANGED args
    /\ UNCHANGED <<argv, meta, modelDir, outDir, modelDir0, outDir0, bin_files, idx,
                   bin_file_sd, properties, registry, steps, snap>>

\* a __main__ that never runs the converter
main_convert_skip ==
    /\ pc = "convert"
    /\ pc' = "name"
    /\ UNCHANGED <<argv, args, meta, modelDir, outDir, modelDir0, outDir0, bin_files, idx,
                   bin_file_sd, properties, registry, steps, raisedIn, snap>>

\* __main__: "if args.convert_to_safetensors", and the find of the converter
main_convert ==
    /\ pc = "convert"
    /\ IF args.convert_to_safetensors
       THEN /\ bin_files' \in Orders(find_files_with_inc_excl_pattern(modelDir))
            /\ idx' = 1
            /\ pc' = "conv_loop"
       ELSE /\ pc' = "name"
            /\ UNCHANGED <<bin_files, idx>>
    /\ UNCHANGED <<argv, args, meta, modelDir, outDir, modelDir0, outDir0, bin_file_sd,
                   properties, registry, steps, raisedIn, snap>>

\* torch.load(bin_file)
conv_load ==
    /\ pc = "conv_loop"
    /\ idx <= Len(bin_files)
    /\ \/ /\ isfile(modelDir, bin_files[idx])
          /\ modelDir[bin_files[idx]].fmt = "bin"
          /\ bin_file_sd' = modelDir[bin_files[idx]].data
          /\ pc' = "conv_save"
          /\ UNCHANGED raisedIn
       \/ /\ Raise("convert_lora_weights_to_safetensors")
          /\ UNCHANGED bin_file_sd
    /\ UNCHANGED <<argv, args, meta, modelDir, outDir, modelDir0, outDir0, bin_files, idx,
                   properties, registry, steps, snap>>

\* save_file(bin_file_sd, safe_tensor_file): the file is written, or the call
\* raises before it opened the file, or after it opened it
conv_save ==
    /\ pc = "conv_save"
    /\ LET target == safe_tensor_file(bin_files[idx])
       IN  \/ /\ writable(modelDir, target)
              /\ modelDir' = Put(modelDir, target, File("st", bin_file_sd))
              /\ pc' = "conv_remove"
              /\ UNCHANGED raisedIn
           \/ /\ Raise("convert_lora_weights_to_safetensors")
              /\ UNCHANGED modelDir
           \/ /\ writable(modelDir, target)
              /\ modelDir' = Put(modelDir, target, Partial)
              /\ Raise("convert_lora_weights_to_safetensors")
    /\ UNCHANGED <<argv, args, meta, outDir, modelDir0, outDir0, bin_files, idx, bin_file_sd,
                   properties, registry, steps, snap>>

\* os.remove(bin_file), and the next round of the loop
conv_remove ==
    /\ pc = "conv_remove"
    /\ \/ /\ isfile(modelDir, bin_files[idx])
          /\ modelDir' = Remove(modelDir, bin_files[idx])
          /\ idx' = idx + 1
          /\ pc' = "conv_loop"
          /\ UNCHANGED raisedIn
       \/ /\ Raise("convert_lora_weights_to_safetensors")
          /\ UNCHANGED <<modelDir, idx>>
    /\ UNCHANGED <<argv, args, meta, outDir, modelDir0, outDir0, bin_files, bin_file_sd,
                   properties, registry, steps, snap>>

\* the loop over bin_files ends and the converter returns
conv_done ==
    /\ pc = "conv_loop"
    /\ idx > Len(bin_files)
    /\ pc' = "name"
    /\ steps' = Append(steps, "convert")
    /\ UNCHANGED <<argv, args, meta, modelDir, outDir, modelDir0, outDir0, bin_files, idx,
                   bin_file_sd, properties, registry, raisedIn, snap>>

\* __main__: "if args.model_name is None: args.model_name = get_model_name(...)"
main_name ==
    /\ pc = "name"
    /\ IF args.model_name.given
       THEN /\ pc' = "get_properties"
            /\ UNCHANGED <<args, steps, raisedIn>>
       ELSE \E uuid \in UUIDs :
              LET r == get_model_name(meta, uuid)
              IN  IF r.ok
                  THEN /\ args' = [args EXCEPT !.model_name = Given(r.val)]
                       /\ steps' = Append(steps, "name")
                       /\ pc' = "get_properties"
                       /\ UNCHANGED raisedIn
                  ELSE /\ Raise("get_model_name")
                       /\ UNCHANGED <<args, steps>>
    /\ UNCHANGED <<argv, meta, modelDir, outDir, modelDir0, outDir0, bin_files, idx,
                   bin_file_sd, properties, registry, snap>>

\* register_model: "properties = get_properties(args.finetune_args_path)"
reg_properties ==
    /\ pc = "get_properties"
    /\ LET r == get_properties(meta)
       IN  IF r.ok
           THEN /\ properties' = r.val
                /\ pc' = "register"
                /\ UNCHANGED raisedIn
           ELSE /\ Raise("get_properties")
                /\ UNCHANGED properties
    /\ UNCHANGED <<argv, args, meta, modelDir, outDir, modelDir0, outDir0, bin_files, idx,
                   bin_file_sd, registry, steps, snap>>

\* register_model: the name handed to Model.register
sanitized(model_name) ==
    IF ~VALID_MODEL_NAME_PATTERN(model_name)
    THEN NEGATIVE_MODEL_NAME_PATTERN(model_name)
    ELSE model_name

\* the record Model.register returns for its n-th registration
registered(model_name, model_type, props, n) ==
    [id |-> model_name \o <<":">>, name |-> model_name, version |-> n, type |-> model_type,
     properties |-> props, tags |-> <<>>, description |-> <<>>]

\* register_model: get_workspace_details, the name check and Model.register;
\* the workspace lookup and the registry call may raise
reg_register ==
    /\ pc = "register"
    /\ \/ /\ registry' = Append(registry,
                 registered(sanitized(args.model_name.v), args.model_type, properties,
                            Len(registry) + 1))
          /\ steps' = Append(steps, "register")
          /\ pc' = "write"
          /\ UNCHANGED raisedIn
       \/ /\ Raise("register_model")
          /\ UNCHANGED <<registry, steps>>
    /\ UNCHANGED <<argv, args, meta, modelDir, outDir, modelDir0, outDir0, bin_files, idx,
                   bin_file_sd, properties, snap>>

\* register_model: model_info is written to the result file; open(.., "w+")
\* truncates the file, so a write that raises leaves it partial
reg_write ==
    /\ pc = "write"
    /\ LET registration_file == <<REGISTRATION_DETAILS_JSON_FILE>>
       IN  \/ /\ writable(outDir, registration_file)
              /\ outDir' = Put(outDir, registration_file, JsonFile(registry[Len(registry)]))
              /\ steps' = Append(steps, "write")
              /\ pc' = "copy"
              /\ UNCHANGED raisedIn
           \/ /\ Raise("register_model")
              /\ UNCHANGED <<outDir, steps>>
           \/ /\ writable(outDir, registration_file)
              /\ outDir' = Put(outDir, registration_file, Partial)
              /\ Raise("register_model")
              /\ UNCHANGED steps
    /\ UNCHANGED <<argv, args, meta, modelDir, modelDir0, outDir0, bin_files, idx,
                   bin_file_sd, properties, registry, snap>>

\* what of the environment may fail while the tree t is copied: nothing, or
\* the copy of one file
Failures(t) == {NoFailure} \cup {(p :> m) : p \in Files(t), m \in {"open", "write"}}

\* __main__: "if args.copy_model_to_output: copy_model_to_output(...)", and the exit
main_copy ==
    /\ pc = "copy"
    /\ IF args.copy_model_to_output
       THEN \E fail \in Failures(modelDir) :
              LET r == copy_model_to_output(modelDir, outDir, fail)
              IN  /\ outDir' = r.fs
                  /\ IF r.err
                     THEN /\ Raise("copy_model_to_output")
                          /\ UNCHANGED steps
                     ELSE /\ steps' = Append(steps, "copy")
                          /\ pc' = "done"
                          /\ UNCHANGED raisedIn
       ELSE /\ pc' = "done"
            /\ UNCHANGED <<outDir, steps, raisedIn>>
    /\ UNCHANGED <<argv, args, meta, modelDir, modelDir0, outDir0, bin_files, idx,
                   bin_file_sd, properties, registry, snap>>

Next ==
    \/ parse_args
    \/ main_convert
    \/ conv_load
    \/ conv_save
    \/ conv_remove
    \/ conv_done
    \/ main_name
    \/ reg_properties
    \/ reg_register
    \/ reg_write
    \/ main_copy

Spec == Init /\ [][Next]_vars

----------------------------------------------------------------------------
\* copy_model_to_output called twice on the same source and destination

X == <<"x">>
Y == <<"y">>

\* paths of the trees the copy is run on: two names at the top, one below
CopyPaths == {<<X>>, <<Y>>, <<X, X>>, <<Y, X>>}

CopyEntries == {DirEntry} \cup {File("raw", d) : d \in 1..MaxData}

\* every path of a tree but the root lies in a directory of the tree
WellFormed(t) == \A p \in DOMAIN t : Len(p) > 1 => isdir(t, Parent(p))

CopyTrees ==
    {t \in UNION {[D -> CopyEntries] : D \in SUBSET CopyPaths} : WellFormed(t)}

InitCopy ==
    /\ argv = [convert_to_safetensors |-> Omitted, copy_model_to_output |-> Given(S_true),
               model_name |-> Omitted]
    /\ args = [NoArgs EXCEPT !.copy_model_to_output = TRUE]
    /\ meta = NoFile
    /\ modelDir \in CopyTrees
    /\ outDir \in CopyTrees
    /\ modelDir0 = modelDir
    /\ outDir0 = outDir
    /\ pc = "copy_first"
    /\ bin_files = <<>>
    /\ idx = 0
    /\ bin_file_sd = 0
    /\ properties = NoProperties
    /\ registry = <<>>
    /\ steps = <<>>
    /\ raisedIn = ""
    /\ snap = EmptyTree

\* the first call; the environment lets every file operation succeed
copy_first ==
    /\ pc = "copy_first"
    /\ LET r == copy_model_to_output(modelDir, outDir, NoFailure)
       IN  /\ outDir' = r.fs
           /\ snap' = r.fs
           /\ steps' = Append(steps, IF r.err THEN "raised" ELSE "copy")
    /\ pc' = "copy_again"
    /\ UNCHANGED <<argv, args, meta, modelDir, modelDir0, outDir0, bin_files, idx,
                   bin_file_sd, properties, registry, raisedIn>>

\* the second call, on what the first one left
copy_again ==
    /\ pc = "copy_again"
    /\ LET r == copy_model_to_output(modelDir, outDir, NoFailure)
       IN  /\ outDir' = r.fs
           /\ steps' = Append(steps, IF r.err THEN "raised" ELSE "copy")
    /\ pc' = "copied"
    /\ UNCHANGED <<argv, args, meta, modelDir, modelDir0, outDir0, bin_files, idx,
                   bin_file_sd, properties, registry, raisedIn, snap>>

NextCopy ==
    \/ copy_first
    \/ copy_again

SpecCopy == InitCopy /\ [][NextCopy]_vars

----------------------------------------------------------------------------
\* Properties

IsPrefix(a, b) == Len(a) <= Len(b) /\ SubSeq(b, 1, Len(a)) = a

\* the positions of "/" in s
SlashPositions(s) == {i \in 1..Len(s) : s[i] = SLASH}
Max(S) == CHOOSE m \in S : \A k \in S : k <= m

\* the files matched when the process started
matched0 == find_files_with_inc_excl_pattern(modelDir0)

\* the converter ran to its end
converted == "convert" \in Range(steps)

\* C1: every model name handed to Model.register matches ^[a-zA-Z0-9-]+$
C1_RegisteredNameMatches ==
    \A i \in 1..Len(registry) : VALID_MODEL_NAME_PATTERN(registry[i].name)

\* the steps the command line selects, in the order of __main__
SelectedSteps ==
    (IF args.convert_to_safetensors THEN <<"convert">> ELSE <<>>)
        \o (IF argv.model_name.given THEN <<>> ELSE <<"name">>)
        \o <<"register", "write">>
        \o (IF args.copy_model_to_output THEN <<"copy">> ELSE <<>>)

C2_State ==
    /\ IsPrefix(steps, SelectedSteps)
    /\ pc = "done" => steps = SelectedSteps /\ raisedIn = ""
    /\ pc = "failed" <=> raisedIn # ""
    /\ pc = "failed" => steps # SelectedSteps

\* C2: the process exits with success only after every selected step
\* completed, in the order conversion, name derivation, registration, result
\* file, copy; a step that raises is not completed, ends the process with a
\* failure, and nothing runs after it
C2_StepsInOrder == [](C2_State) /\ [][pc = "failed" => vars' = vars]_vars

C2_Witness ==
    /\ pc = "done"
    /\ steps = <<"convert", "name", "register", "write", "copy">>

\* C3: during and after the conversion the data of every matched file is
\* still there: in the file itself, unchanged, or in a file this run wrote
\* in full
C3_MatchedDataKept ==
    \A p \in matched0 :
        \/ isfile(modelDir, p) /\ modelDir[p] = modelDir0[p]
        \/ \E q \in Files(modelDir) :
              /\ modelDir[q] = File("st", modelDir0[p].data)
              /\ q \notin DOMAIN modelDir0 \/ modelDir0[q] # modelDir[q]

ResultFile(t) ==
    IF <<REGISTRATION_DETAILS_JSON_FILE>> \in DOMAIN t
    THEN t[<<REGISTRATION_DETAILS_JSON_FILE>>]
    ELSE [fmt |-> "absent", data |-> 0, info |-> NoInfo]

\* C4: the result file changes only in the write that follows the return of
\* Model.register; no other step, the copy included, changes it
C4_ResultFileWrittenOnce ==
    [][ResultFile(outDir') # ResultFile(outDir) => pc = "write" /\ Len(registry) = 1]_vars

\* the identifier lookup of get_model_name fails and the default name is used
lookupFails ==
    /\ meta.top # "nofile"
    /\ \/ meta.top = "list"
       \/ meta.asset.kind # "str"
       \/ Cardinality(SlashPositions(meta.asset.s)) < 2

\* C5: with no --model_name and a failing identifier lookup the run does not
\* fail for it: neither the name derivation nor the property extraction
\* raises, and the run goes on to the registry call
C5_LookupFailureRecovered ==
    ~argv.model_name.given /\ lookupFails
        => raisedIn \notin {"get_model_name", "get_properties"}

TrueLiterals == {S_true, S_TRUE, S_1}
FalseLiterals == {S_false, S_False, S_0}

Expected(opt) ==
    IF ~opt.given THEN "false"
    ELSE IF opt.v \in TrueLiterals THEN "true"
    ELSE IF opt.v \in FalseLiterals THEN "false"
    ELSE "error"

\* C6: "true"/"1" in any case give true, "false"/"0" in any case and an
\* omitted flag give false; any other value ends the process in parse_args
\* with the model directory, the output folder and the registry untouched
C6_BooleanFlags ==
    LET c == Expected(argv.convert_to_safetensors)
        k == Expected(argv.copy_model_to_output)
    IN  IF c = "error" \/ k = "error"
        THEN /\ pc \in {"parse_args", "failed"}
             /\ pc = "failed" => raisedIn = "parse_args"
             /\ args = NoArgs
             /\ modelDir = modelDir0
             /\ outDir = outDir0
             /\ registry = <<>>
        ELSE pc # "parse_args" =>
                 /\ raisedIn # "parse_args"
                 /\ args.convert_to_safetensors = (c = "true")
                 /\ args.copy_model_to_output = (k = "true")

C6_Witness ==
    /\ pc = "done"
    /\ argv.convert_to_safetensors = Given(S_TRUE)
    /\ argv.copy_model_to_output = Given(S_False)
    /\ args.convert_to_safetensors
    /\ ~args.copy_model_to_output

\* the name the specification gives the converted file: the same base name
\* with the extension .bin replaced
ConvertedName(p) ==
    SubSeq(p, 1, Len(p) - 1)
        \o << SubSeq(p[Len(p)], 1, Len(p[Len(p)]) - Len(BIN)) \o SAFETENSORS >>

\* C7: after a conversion that ran to its end every matched file is gone, its
\* data is in the file of the same base name with extension .safetensors, no
\* matched file is left and every other file is as it was
C7_ConvertedInPlace ==
    converted =>
        /\ \A p \in matched0 :
              /\ p \notin DOMAIN modelDir
              /\ isfile(modelDir, ConvertedName(p))
              /\ modelDir[ConvertedName(p)] = File("st", modelDir0[p].data)
        /\ find_files_with_inc_excl_pattern(modelDir) = {}
        /\ \A q \in DOMAIN modelDir0 \ matched0 :
              q \in DOMAIN modelDir /\ modelDir[q] = modelDir0[q]

\* the third-from-last segment of a string with at least two "/"
ThirdFromLast(s) ==
    LET last == Max(SlashPositions(s))
        mid == Max(SlashPositions(s) \ {last})
        rest == {i \in SlashPositions(s) : i < mid}
        from == IF rest = {} THEN 1 ELSE Max(rest) + 1
    IN  SubSeq(s, from, mid - 1)

ExpectedBase ==
    IF meta.top = "dict" /\ meta.asset.kind = "str"
          /\ Cardinality(SlashPositions(meta.asset.s)) >= 2
    THEN ThirdFromLast(meta.asset.s)
    ELSE DEFAULT_MODEL_NAME

IsUUID(u) ==
    /\ Len(u) = 36
    /\ \A i \in 1..36 : IF i \in {9, 14, 19, 24} THEN u[i] = HYPHEN ELSE u[i] \in HexDigits

\* C8: a derived name is the third-from-last segment of the identifier, or
\* default_model_name when the identifier is missing, no string or shorter
\* than three segments, followed by "-ft-" and a 36-character UUID; in none
\* of these cases get_model_name raises
C8_DerivedName ==
    /\ "name" \in Range(steps) =>
           LET n == args.model_name.v
           IN  /\ Len(n) >= 40
               /\ IsUUID(SubSeq(n, Len(n) - 35, Len(n)))
               /\ SubSeq(n, 1, Len(n) - 36) = ExpectedBase \o FT
    /\ raisedIn = "get_model_name" => meta.top = "nofile"

S_base_model == <<"b", "a", "s", "e", "-", "m", "o", "d", "e", "l">>

C8_Witness ==
    /\ "name" \in Range(steps)
    /\ meta = DictString(A_weights)
    /\ IsPrefix(S_base_model \o FT, args.model_name.v)

\* the identifier without its last two segments
ExpectedBaseModelId ==
    LET s == meta.asset.s
    IN  IF Cardinality(SlashPositions(s)) < 2 THEN <<>>
        ELSE SubSeq(s, 1, Max(SlashPositions(s) \ {Max(SlashPositions(s))}) - 1)

\* C9: for an identifier that is a string get_properties returns exactly
\* baseModelId, the identifier without its last two segments, and
\* baseModelWeightsVersion 1.0; with the key missing it raises and no
\* registry call is made
C9_Properties ==
    /\ pc \in {"register", "write", "copy", "done"} =>
           /\ meta.top = "dict" /\ meta.asset.kind = "str"
           /\ DOMAIN properties = {"baseModelId", "baseModelWeightsVersion"}
           /\ properties.baseModelId = ExpectedBaseModelId
           /\ properties.baseModelWeightsVersion = "1.0"
    /\ meta = DictMissing =>
           /\ registry = <<>>
           /\ properties = NoProperties
           /\ pc = "failed" =>
                  raisedIn \in {"parse_args", "convert_lora_weights_to_safetensors",
                                "get_properties"}

S_registry_models_foo ==
    <<"r", "e", "g", "i", "s", "t", "r", "y", "/", "m", "o", "d", "e", "l", "s", "/", "f", "o", "o">>

C9_Witness ==
    /\ pc = "register"
    /\ meta = DictString(A_registry)
    /\ properties.baseModelId = S_registry_models_foo

\* what C10 asks of two copies in a row
copiedTwice ==
    /\ steps = <<"copy", "copy">>
    /\ outDir = snap
    /\ \A p \in Files(modelDir) : isfile(outDir, p) /\ outDir[p] = modelDir[p]
    /\ \A p \in Files(outDir0) \ DOMAIN modelDir : isfile(outDir, p) /\ outDir[p] = outDir0[p]

\* C10 as stated: for every source tree and every destination tree the second
\* copy changes nothing, neither copy raises, every source file is in the
\* destination under its path with its content, and the files only the
\* destination had are as they were
C10_CopyIdempotentMerging == pc = "copied" => copiedTwice

\* no path is a file in one tree and a directory in the other
sameKinds ==
    \A p \in DOMAIN modelDir0 \cap DOMAIN outDir0 :
        (modelDir0[p].fmt = "dir") <=> (outDir0[p].fmt = "dir")

\* C10 amended: the same, for trees where no path is a file on one side and a
\* directory on the other
C10_CopyIdempotentMergingSameKinds == pc = "copied" /\ sameKinds => copiedTwice

C10_Witness ==
    /\ pc = "copied"
    /\ sameKinds
    /\ \E p \in Files(modelDir0) \cap Files(outDir0) : modelDir0[p] # outDir0[p]
    /\ Files(outDir0) \ DOMAIN modelDir0 # {}
    /\ \E p \in Files(modelDir0) : Len(p) = 2

====
